---- MODULE Spec2Model ----
(***************************************************************************)
(* A model of the constrained generation engine of breakwater:             *)
(*   - StarSystem::from_constraints, the one retry boundary                 *)
(*     (src/src/astronomy/star_system/mod.rs);                              *)
(*   - StarSubsystemType, the recursive Single/Double tree, its generator   *)
(*     and its aggregations                                                 *)
(*     (src/src/astronomy/star_system/subsystem/type/mod.rs);              *)
(*   - Star construction and the star habitability check                    *)
(*     (src/src/astronomy/star/mod.rs);                                     *)
(*   - close binary star generation                                         *)
(*     (src/src/astronomy/close_binary_star/constraints/mod.rs);            *)
(*   - star generation from a constraint record                             *)
(*     (src/src/astronomy/star/constraints/mod.rs);                         *)
(*   - host star generation, which selects one of the two                   *)
(*     (src/src/astronomy/host_star/constraints/mod.rs).                    *)
(*                                                                         *)
(* Real quantities are fixed-point integers: masses in milli-Msol,          *)
(* luminosities in micro-Lsol, ages in Myr.  A uniform draw                 *)
(* rng.gen_range(low..high) is a choice among the grid points p with        *)
(* low <= p < high; an empty range makes gen_range panic.                   *)
(***************************************************************************)
EXTENDS Integers, Sequences, FiniteSets, TLC

VARIABLES
    \* ---- StarSystem::from_constraints ----
    sys_constraints,  \* the star system constraint record (its `retries` field)
    sys_pc,           \* "idle" | "loop" | "returned"
    retries,          \* the local `retries` counter
    attempts,         \* number of calls of subsystem_constraints.generate so far
    log,              \* the candidate_result of every attempt, in order
    sys_result,       \* the value from_constraints returned
    \* ---- StarSubsystemType::get_random_constrained ----
    constraints,      \* the StarSubsystemConstraints record of the call
    stack,            \* the active calls of get_random_constrained, outermost first
    ret,              \* the value the call that ended last returned
    \* ---- the aggregations over a finished tree ----
    subsystem,        \* a tree get_random_constrained has built
    overflow_checks,  \* whether the build panics on integer overflow or wraps
    \* ---- close binary star Constraints::generate ----
    cb_constraints,   \* the close binary star constraint record (self)
    cb_pc,            \* "idle" | "eccentricity" | "separation" | "combined" |
                      \* "primary" | "stars" | "returned" | "aborted"
    cb,               \* the locals of generate
    cb_result,        \* the value generate returned, or Panic
    \* ---- star Constraints::generate ----
    st_constraints,   \* the star constraint record (self)
    st_pc,            \* "idle" | "mass" | "from_mass" | "age" | "returned" | "aborted"
    st,               \* the locals of generate
    st_result,        \* the value generate returned, or Panic
    \* ---- host star Constraints::generate ----
    host_constraints, \* the host star constraint record (self)
    host_pc,          \* "idle" | "star" | "close_binary" | "returned" | "aborted"
    selection_draw,   \* the value rng.gen_range(0.0..=1.0) yielded
    is_solitary,      \* the local is_solitary
    host_result       \* the value generate returned, or Panic

sysVars == <<sys_constraints, sys_pc, retries, attempts, log, sys_result>>
treeVars == <<constraints, stack, ret>>
aggVars == <<subsystem, overflow_checks>>
cbVars == <<cb_constraints, cb_pc, cb, cb_result>>
starVars == <<st_constraints, st_pc, st, st_result>>
hostVars == <<host_constraints, host_pc, selection_draw, is_solitary, host_result>>

vars == <<sysVars, treeVars, aggVars, cbVars, starVars, hostVars>>

\* What an action of one component leaves alone.
notSys == <<treeVars, aggVars, cbVars, starVars, hostVars>>
notTree == <<sysVars, aggVars, cbVars, starVars, hostVars>>
notAgg == <<sysVars, treeVars, cbVars, starVars, hostVars>>
notCb == <<sysVars, treeVars, aggVars, starVars, hostVars>>
notStar == <<sysVars, treeVars, aggVars, cbVars, hostVars>>
notHost == <<sysVars, treeVars, aggVars>>

(***************************************************************************)
(* Option<T> and Result<T, E>.                                             *)
(***************************************************************************)
None == [some |-> FALSE, v |-> 0]
Some(x) == [some |-> TRUE, v |-> x]
unwrap_or(opt, default) == IF opt.some THEN opt.v ELSE default

NoVal == "-"
Ok(x) == [ok |-> TRUE, val |-> x, err |-> NoVal]
Err(e) == [ok |-> FALSE, val |-> NoVal, err |-> e]
\* No value returned yet.
NoRet == [ok |-> FALSE, val |-> NoVal, err |-> "none"]
Returned(r) == r.err # "none"

(***************************************************************************)
(* The state of a component that is not running.                           *)
(***************************************************************************)
\* No call of from_constraints in progress.
SysIdle ==
    /\ sys_pc = "idle"
    /\ retries = 0
    /\ attempts = 0
    /\ log = <<>>
    /\ sys_result = NoRet

\* No call of get_random_constrained in progress.
TreeIdle ==
    /\ constraints = [binary_probability |-> None, star_constraints |-> None]
    /\ stack = <<>>
    /\ ret = NoRet

\* No tree under aggregation.
NoTree == [type |-> "None"]

AggIdle ==
    /\ subsystem = NoTree
    /\ overflow_checks = FALSE

\* The locals of close binary star generation before any is set.
NoLocals ==
    [minimum_combined_mass |-> 0, maximum_combined_mass |-> 0,
     minimum_orbital_eccentricity |-> 0, maximum_orbital_eccentricity |-> 0,
     minimum_average_separation |-> 0, maximum_average_separation |-> 0,
     orbital_eccentricity |-> 0, average_separation |-> 0,
     combined_mass |-> 0, primary_mass |-> 0, secondary_mass |-> 0]

\* No call of close binary star generation in progress.
CbIdle ==
    /\ cb_pc = "idle"
    /\ cb = NoLocals
    /\ cb_result = NoRet

\* No call of from_constraints, and none to come.
SysNotCalled ==
    /\ sys_constraints = [retries |-> None]
    /\ SysIdle

\* No call of close binary star generation, and none to come.
CbNotCalled ==
    /\ cb_constraints = NoVal
    /\ CbIdle

\* The locals of star generation before any is set.
NoStarLocals ==
    [random_spectral_class |-> NoVal, lower_bound_mass |-> 0, upper_bound_mass |-> 0,
     mass |-> 0, minimum_age |-> 0, maximum_age |-> 0]

\* No call of star generation in progress.
StIdle ==
    /\ st_pc = "idle"
    /\ st = NoStarLocals
    /\ st_result = NoRet

\* No call of star generation, and none to come.
StNotCalled ==
    /\ st_constraints = NoVal
    /\ StIdle

\* No call of host star generation, and none to come.
HostNotCalled ==
    /\ host_constraints = NoVal
    /\ host_pc = "idle"
    /\ selection_draw = 0
    /\ is_solitary = FALSE
    /\ host_result = NoRet

(***************************************************************************)
(* Bounds of the model.                                                    *)
(***************************************************************************)
\* Largest explicit `retries` value a caller passes.
MaxRetries == 3
\* Number of distinct entities a child generator can return.
NumCandidates == 2
\* Deepest nesting of get_random_constrained calls below the outermost one.
MaxDepth == 2
\* Deepest tree the aggregations are applied to.
MaxTreeDepth == 8
\* Deepest tree that is still paired with a single star.
MaxUnevenDepth == 2

(***************************************************************************)
(* StarSystem::from_constraints                                            *)
(***************************************************************************)
\* constraints.retries.unwrap_or(10)
DEFAULT_RETRIES == 10

NoSuitableSubsystemsCouldBeGenerated == "NoSuitableSubsystemsCouldBeGenerated"

\* star_subsystem Constraints::generate: one bool draw selects the child
\* generator; the child returns an entity or fails, and `?` passes the
\* failure on.
SubsystemGenerate(generate_planetary_system) ==
    IF generate_planetary_system
    THEN {Ok([kind |-> "PlanetarySystem", id |-> i]) : i \in 1..NumCandidates}
           \cup {Err("PlanetarySystemError")}
    ELSE {Ok([kind |-> "DistantBinaryStar", id |-> i]) : i \in 1..NumCandidates}
           \cup {Err("DistantBinaryStarError")}

\* Entry of from_constraints up to the first loop iteration.
FromConstraintsEnter ==
    /\ sys_pc = "idle"
    /\ retries' = unwrap_or(sys_constraints.retries, DEFAULT_RETRIES)
    /\ sys_pc' = "loop"
    /\ UNCHANGED <<sys_constraints, attempts, log, sys_result>>
    /\ UNCHANGED notSys

\* The loop with its exhaustion test off by one: a failed attempt with the
\* counter at 0 is followed by one more attempt.
LoopBody_LateExhaustion(candidate_result) ==
    /\ attempts' = attempts + 1
    /\ log' = Append(log, candidate_result)
    /\ IF candidate_result.ok
       THEN /\ sys_result' = Ok([subsystem |-> candidate_result.val, name |-> "Steve"])
            /\ sys_pc' = "returned"
            /\ UNCHANGED retries
       ELSE IF retries < 0
       THEN /\ sys_result' = Err(NoSuitableSubsystemsCouldBeGenerated)
            /\ sys_pc' = "returned"
            /\ UNCHANGED retries
       ELSE /\ retries' = retries - 1
            /\ UNCHANGED <<sys_pc, sys_result>>
    /\ UNCHANGED sys_constraints
    /\ UNCHANGED notSys

\* The loop without `retries -= 1`.
LoopBody_CounterNotDecremented(candidate_result) ==
    /\ attempts' = attempts + 1
    /\ log' = Append(log, candidate_result)
    /\ IF candidate_result.ok
       THEN /\ sys_result' = Ok([subsystem |-> candidate_result.val, name |-> "Steve"])
            /\ sys_pc' = "returned"
            /\ UNCHANGED retries
       ELSE IF retries = 0
       THEN /\ sys_result' = Err(NoSuitableSubsystemsCouldBeGenerated)
            /\ sys_pc' = "returned"
            /\ UNCHANGED retries
       ELSE UNCHANGED <<retries, sys_pc, sys_result>>
    /\ UNCHANGED sys_constraints
    /\ UNCHANGED notSys

\* The loop reporting exhaustion with the last attempt's own error.
LoopBody_PropagateError(candidate_result) ==
    /\ attempts' = attempts + 1
    /\ log' = Append(log, candidate_result)
    /\ IF candidate_result.ok
       THEN /\ sys_result' = Ok([subsystem |-> candidate_result.val, name |-> "Steve"])
            /\ sys_pc' = "returned"
            /\ UNCHANGED retries
       ELSE IF retries = 0
       THEN /\ sys_result' = Err(candidate_result.err)
            /\ sys_pc' = "returned"
            /\ UNCHANGED retries
       ELSE /\ retries' = retries - 1
            /\ UNCHANGED <<sys_pc, sys_result>>
    /\ UNCHANGED sys_constraints
    /\ UNCHANGED notSys

\* One iteration of the loop, with candidate_result the value generate returned.
LoopBody(candidate_result) ==
    /\ attempts' = attempts + 1
    /\ log' = Append(log, candidate_result)
    /\ IF candidate_result.ok
       THEN /\ sys_result' = Ok([subsystem |-> candidate_result.val, name |-> "Steve"])
            /\ sys_pc' = "returned"
            /\ UNCHANGED retries
       ELSE IF retries = 0
       THEN /\ sys_result' = Err(NoSuitableSubsystemsCouldBeGenerated)
            /\ sys_pc' = "returned"
            /\ UNCHANGED retries
       ELSE /\ retries' = retries - 1
            /\ UNCHANGED <<sys_pc, sys_result>>
    /\ UNCHANGED sys_constraints
    /\ UNCHANGED notSys

LoopIteration ==
    /\ sys_pc = "loop"
    /\ \E generate_planetary_system \in BOOLEAN :
         \E candidate_result \in SubsystemGenerate(generate_planetary_system) :
            LoopBody(candidate_result)

(***************************************************************************)
(* The random stream.                                                      *)
(***************************************************************************)
\* rng.gen_range(low..high): a point of the half-open range, `low` itself or
\* a point of `grid` inside it.  The empty set stands for the panic of
\* gen_range on an empty range (low >= high).
GenRange(low, high, grid) ==
    IF low < high THEN {low} \cup {p \in grid : low < p /\ p < high} ELSE {}

\* The end of a call that panicked: no value is returned, the call stack unwinds.
Panic == [ok |-> FALSE, val |-> NoVal, err |-> "panic"]
Panicked(r) == r.err = "panic"

\* Interior points of the draws: the unit interval in 1/1000, masses in
\* milli-Msol, ages as tenths of the life expectancy.
UnitGrid == {999}
MassGrid == {200, 1000}
AgeGrid(life_expectancy) == {(5 * life_expectancy) \div 10}

(***************************************************************************)
(* Star (src/src/astronomy/star/mod.rs)                                    *)
(***************************************************************************)
\* Named constants of crate::astronomy, in milli-Msol and Myr.
MAIN_SEQUENCE_STAR_MASS_LOWER_BOUND == 75
MAIN_SEQUENCE_STAR_MASS_UPPER_BOUND == 120000
MINIMUM_STAR_MASS_TO_SUPPORT_LIFE == 600
MAXIMUM_STAR_MASS_TO_SUPPORT_LIFE == 1400
MINIMUM_STAR_AGE_TO_SUPPORT_LIFE == 4000

StellarMassTooLowForMainSequence == "StellarMassTooLowForMainSequence"
StellarMassTooHighForMainSequence == "StellarMassTooHighForMainSequence"

\* The formula oracle get_main_sequence_star_luminosity_from_mass: a pure
\* function of the mass that fails outside the main-sequence range.  The
\* value is mass^4 Lsol, in micro-Lsol.
get_main_sequence_star_luminosity_from_mass(mass) ==
    IF mass < MAIN_SEQUENCE_STAR_MASS_LOWER_BOUND
    THEN Err(StellarMassTooLowForMainSequence)
    ELSE IF mass > MAIN_SEQUENCE_STAR_MASS_UPPER_BOUND
    THEN Err(StellarMassTooHighForMainSequence)
    ELSE Ok(((mass * mass) \div 1000) * ((mass * mass) \div 1000))

\* The range checks of SpectralClassType::get_main_sequence_from_mass.
SpectralClassCheck(mass) ==
    IF mass <= MAIN_SEQUENCE_STAR_MASS_LOWER_BOUND
    THEN Err(StellarMassTooLowForMainSequence)
    ELSE IF mass >= MAIN_SEQUENCE_STAR_MASS_UPPER_BOUND
    THEN Err(StellarMassTooHighForMainSequence)
    ELSE Ok(NoVal)

\* 1000 * a / b in 32-bit steps.
Times1000Over(a, b) ==
    ((a \div b) * 1000)
      + (IF b >= 1000 THEN (a % b) \div (b \div 1000) ELSE ((a % b) * 1000) \div b)

\* Star::get_main_sequence_from_mass: the outcomes over the age draw.
get_main_sequence_from_mass(mass) ==
    LET luminosity == get_main_sequence_star_luminosity_from_mass(mass)
        class == SpectralClassCheck(mass)
    IN  IF ~luminosity.ok THEN {luminosity}
        ELSE IF ~class.ok THEN {class}
        ELSE LET life_expectancy == Times1000Over(mass * 10000, luminosity.val)
                 ages == GenRange((2 * life_expectancy) \div 10,
                                  (8 * life_expectancy) \div 10,
                                  AgeGrid(life_expectancy))
             IN  IF ages = {} THEN {Panic}
                 ELSE {Ok([mass |-> mass,
                           luminosity |-> luminosity.val,
                           life_expectancy |-> life_expectancy,
                           current_age |-> current_age]) : current_age \in ages}

\* StarConstraints::default(): no bound set.
StarConstraints_default == [minimum_stellar_mass |-> None, maximum_stellar_mass |-> None]

\* Star::get_random_main_sequence_constrained: the outcomes over the mass draw
\* and the age draw.
get_random_main_sequence_constrained(star_constraints) ==
    LET lower_bound_mass ==
            unwrap_or(star_constraints.minimum_stellar_mass, MAIN_SEQUENCE_STAR_MASS_LOWER_BOUND)
        upper_bound_mass ==
            unwrap_or(star_constraints.maximum_stellar_mass, MAIN_SEQUENCE_STAR_MASS_UPPER_BOUND)
        masses == GenRange(lower_bound_mass, upper_bound_mass, MassGrid)
    IN  IF masses = {} THEN {Panic}
        ELSE UNION {get_main_sequence_from_mass(mass) : mass \in masses}

\* Star::is_habitable
Star_is_habitable(star) == star.current_age >= MINIMUM_STAR_AGE_TO_SUPPORT_LIFE

\* star.check_habitable() as StarSubsystemType::check_habitable calls it: the
\* Result form of Star::is_habitable (is_habitable is true exactly when
\* check_habitable is Ok), failing with the taxonomy's NotHabitable.
NotHabitable == "NotHabitable"
Star_check_habitable(star) ==
    IF Star_is_habitable(star) THEN Ok(NoVal) ELSE Err(NotHabitable)

\* f64::sqrt on a fixed-point value: the largest n in lo..hi with n * n <= k.
RECURSIVE SqrtBetween(_, _, _)
SqrtBetween(k, lo, hi) ==
    IF lo >= hi THEN lo
    ELSE LET mid == (lo + hi + 1) \div 2
         IN  IF mid * mid <= k THEN SqrtBetween(k, mid, hi)
             ELSE SqrtBetween(k, lo, mid - 1)

sqrt(k) == SqrtBetween(k, 0, 46340)

\* The zones Star::get_main_sequence_from_mass derives for a star, distances
\* in milli-AU from a luminosity in micro-Lsol and a mass in milli-Msol, so
\* that the square root of a luminosity is a distance:
\*   habitable_zone = ((luminosity / 1.1).sqrt(), (luminosity / 0.53).sqrt())
Star_habitable_zone(luminosity) ==
    <<sqrt((10 * luminosity) \div 11), sqrt((100 * luminosity) \div 53)>>

\*   approximate_satellite_inner_bound = 0.1 * mass, outer = 40.0 * mass
Star_satellite_bounds(mass) == <<mass \div 10, 40 * mass>>

\*   frost_line = 4.85 * luminosity.sqrt()
Star_frost_line(luminosity) == (485 * sqrt(luminosity)) \div 100

(***************************************************************************)
(* StarSubsystemType (src/src/astronomy/star_system/subsystem/type/mod.rs) *)
(***************************************************************************)
Single(star) == [type |-> "Single", star |-> star]
Double(first, second) == [type |-> "Double", first |-> first, second |-> second]

PROBABILITY_OF_BINARY_STARS == 330
NoHabitableZoneFoundInSubsystem == "NoHabitableZoneFoundInSubsystem"

RECURSIVE get_mass(_)
get_mass(self) ==
    IF self.type = "Single" THEN self.star.mass
    ELSE get_mass(self.first) + get_mass(self.second)

\* get_luminosity adding the second child's mass instead of its luminosity.
RECURSIVE get_luminosity_AddsMass(_)
get_luminosity_AddsMass(self) ==
    IF self.type = "Single" THEN self.star.luminosity
    ELSE get_luminosity_AddsMass(self.first) + get_mass(self.second)

RECURSIVE get_luminosity(_)
get_luminosity(self) ==
    IF self.type = "Single" THEN self.star.luminosity
    ELSE get_luminosity(self.first) + get_luminosity(self.second)

\* check_habitable asking both children of a Double to be habitable.
RECURSIVE check_habitable_BothChildren(_)
check_habitable_BothChildren(self) ==
    IF self.type = "Single" THEN Star_check_habitable(self.star)
    ELSE IF ~check_habitable_BothChildren(self.first).ok
              \/ ~check_habitable_BothChildren(self.second).ok
         THEN Err(NoHabitableZoneFoundInSubsystem)
         ELSE Ok(NoVal)

RECURSIVE check_habitable(_)
check_habitable(self) ==
    IF self.type = "Single" THEN Star_check_habitable(self.star)
    ELSE IF ~check_habitable(self.first).ok /\ ~check_habitable(self.second).ok
         THEN Err(NoHabitableZoneFoundInSubsystem)
         ELSE Ok(NoVal)

is_habitable(self) == check_habitable(self).ok

\* get_habitable_zone: the star's own zone for a Single, and for a Double
\* (0.95 * base, 1.37 * base) with base the square root of the summed
\* luminosities of the two children.
get_habitable_zone(self) ==
    IF self.type = "Single" THEN Star_habitable_zone(self.star.luminosity)
    ELSE LET sub1_lum == get_luminosity(self.first)
             sub2_lum == get_luminosity(self.second)
             base == sqrt(sub1_lum + sub2_lum)
         IN  <<(95 * base) \div 100, (137 * base) \div 100>>

\* get_satellite_bounds
get_satellite_bounds(self) ==
    IF self.type = "Single" THEN Star_satellite_bounds(self.star.mass)
    ELSE LET sub1_mass == get_mass(self.first)
             sub2_mass == get_mass(self.second)
             total_mass == sub1_mass + sub2_mass
         IN  <<total_mass \div 10, 40 * total_mass>>

\* get_frost_line
get_frost_line(self) ==
    IF self.type = "Single" THEN Star_frost_line(self.star.luminosity)
    ELSE LET sub1_lum == get_luminosity(self.first)
             sub2_lum == get_luminosity(self.second)
         IN  (485 * sqrt(sub1_lum + sub2_lum)) \div 100

\* The Double arm keeping the children in generation order.
MakeDouble_GenerationOrder(sub_a, sub_b) == Double(sub_a, sub_b)

\* The Double arm of get_random_constrained once both children are there:
\* the heavier child first.
MakeDouble(sub_a, sub_b) ==
    LET sub_a_mass == get_mass(sub_a)
        sub_b_mass == get_mass(sub_b)
        first == IF sub_a_mass > sub_b_mass THEN sub_a ELSE sub_b
        second == IF sub_a_mass > sub_b_mass THEN sub_b ELSE sub_a
    IN  Double(first, second)

\* One active call of get_random_constrained: where it stands ("start",
\* "single", "sub_a", "sub_b") and its local sub_a once generated.
Frame(pc, sub_a) == [pc |-> pc, sub_a |-> sub_a]
Top == stack[Len(stack)]
Pop == SubSeq(stack, 1, Len(stack) - 1)
ReplaceTop(frame) == [stack EXCEPT ![Len(stack)] = frame]

\* A caller invokes get_random_constrained.
GetRandomConstrainedCall ==
    /\ stack = <<>>
    /\ ~Returned(ret)
    /\ stack' = <<Frame("start", NoVal)>>
    /\ UNCHANGED <<constraints, ret>>
    /\ UNCHANGED notTree

\* A nested call below the first level always taking the Single arm.
DrawIsBinary_DepthCapped ==
    /\ stack # <<>>
    /\ Top.pc = "start"
    /\ \E draw \in GenRange(0, 1000, UnitGrid) :
         LET binary_probability ==
                 unwrap_or(constraints.binary_probability, PROBABILITY_OF_BINARY_STARS)
             is_binary == draw <= binary_probability /\ Len(stack) < 2
         IN  IF is_binary
             THEN /\ Len(stack) <= MaxDepth
                  /\ stack' = Append(ReplaceTop(Frame("sub_a", NoVal)), Frame("start", NoVal))
             ELSE stack' = ReplaceTop(Frame("single", NoVal))
    /\ UNCHANGED <<constraints, ret>>
    /\ UNCHANGED notTree

\* The binary arm starting both recursive calls at once.
DrawIsBinary_StartsBothChildren ==
    /\ stack # <<>>
    /\ Top.pc = "start"
    /\ \E draw \in GenRange(0, 1000, UnitGrid) :
         LET binary_probability ==
                 unwrap_or(constraints.binary_probability, PROBABILITY_OF_BINARY_STARS)
             is_binary == draw <= binary_probability
         IN  IF is_binary
             THEN /\ Len(stack) <= MaxDepth
                  /\ stack' = ReplaceTop(Frame("sub_a", NoVal))
                                \o <<Frame("start", NoVal), Frame("start", NoVal)>>
             ELSE stack' = ReplaceTop(Frame("single", NoVal))
    /\ UNCHANGED <<constraints, ret>>
    /\ UNCHANGED notTree

\* let is_binary = rng.gen_range(0.0..1.0) <= binary_probability, and the
\* first call of the chosen arm.
DrawIsBinary ==
    /\ stack # <<>>
    /\ Top.pc = "start"
    /\ \E draw \in GenRange(0, 1000, UnitGrid) :
         LET binary_probability ==
                 unwrap_or(constraints.binary_probability, PROBABILITY_OF_BINARY_STARS)
             is_binary == draw <= binary_probability
         IN  IF is_binary
             THEN /\ Len(stack) <= MaxDepth
                  /\ stack' = Append(ReplaceTop(Frame("sub_a", NoVal)), Frame("start", NoVal))
             ELSE stack' = ReplaceTop(Frame("single", NoVal))
    /\ UNCHANGED <<constraints, ret>>
    /\ UNCHANGED notTree

\* The Single arm: Single(Star::get_random_main_sequence_constrained(..)?).
GenerateSingle ==
    /\ stack # <<>>
    /\ Top.pc = "single"
    /\ LET star_constraints ==
               unwrap_or(constraints.star_constraints, StarConstraints_default)
       IN  \E star \in get_random_main_sequence_constrained(star_constraints) :
              IF Panicked(star)
              THEN /\ ret' = Panic
                   /\ stack' = <<>>
              ELSE /\ ret' = IF star.ok THEN Ok(Single(star.val)) ELSE star
                   /\ stack' = Pop
    /\ UNCHANGED constraints
    /\ UNCHANGED notTree

\* The first recursive call made again after it failed.
SubAReturns_RetryOnFailure ==
    /\ stack # <<>>
    /\ Top.pc = "sub_a"
    /\ Returned(ret)
    /\ IF ret.ok
       THEN /\ stack' = Append(ReplaceTop(Frame("sub_b", ret.val)), Frame("start", NoVal))
            /\ ret' = NoRet
       ELSE /\ stack' = Append(stack, Frame("start", NoVal))
            /\ ret' = NoRet
    /\ UNCHANGED constraints
    /\ UNCHANGED notTree

\* The second recursive call made with a record reset to its defaults.
SubAReturns_DefaultsForSecondChild ==
    /\ stack # <<>>
    /\ Top.pc = "sub_a"
    /\ Returned(ret)
    /\ IF ret.ok
       THEN /\ stack' = Append(ReplaceTop(Frame("sub_b", ret.val)), Frame("start", NoVal))
            /\ ret' = NoRet
            /\ constraints' = [binary_probability |-> None, star_constraints |-> None]
       ELSE /\ stack' = Pop
            /\ UNCHANGED <<ret, constraints>>
    /\ UNCHANGED notTree

\* The first recursive call returned: `?` ends this call on a failure,
\* otherwise sub_a is kept and the second recursive call starts.
SubAReturns ==
    /\ stack # <<>>
    /\ Top.pc = "sub_a"
    /\ Returned(ret)
    /\ IF ret.ok
       THEN /\ stack' = Append(ReplaceTop(Frame("sub_b", ret.val)), Frame("start", NoVal))
            /\ ret' = NoRet
       ELSE /\ stack' = Pop
            /\ UNCHANGED ret
    /\ UNCHANGED constraints
    /\ UNCHANGED notTree

\* The second recursive call returned: `?` ends this call on a failure,
\* otherwise the Double node is built and returned.
SubBReturns ==
    /\ stack # <<>>
    /\ Top.pc = "sub_b"
    /\ Returned(ret)
    /\ IF ret.ok
       THEN ret' = Ok(MakeDouble(Top.sub_a, ret.val))
       ELSE UNCHANGED ret
    /\ stack' = Pop
    /\ UNCHANGED constraints
    /\ UNCHANGED notTree

\* The constraint records a caller passes.
StarConstraintsRecords ==
    { [minimum_stellar_mass |-> Some(MINIMUM_STAR_MASS_TO_SUPPORT_LIFE),
       maximum_stellar_mass |-> Some(MAXIMUM_STAR_MASS_TO_SUPPORT_LIFE)],
      [minimum_stellar_mass |-> Some(1000), maximum_stellar_mass |-> Some(1000)] }

TreeInit ==
    /\ constraints \in [binary_probability : {None, Some(1000)},
                        star_constraints : {None} \cup {Some(c) : c \in StarConstraintsRecords}]
    /\ stack = <<>>
    /\ ret = NoRet
    /\ SysNotCalled
    /\ AggIdle
    /\ CbNotCalled
    /\ StNotCalled
    /\ HostNotCalled

TreeNext ==
    \/ GetRandomConstrainedCall
    \/ DrawIsBinary
    \/ GenerateSingle
    \/ SubAReturns
    \/ SubBReturns

SpecTree == TreeInit /\ [][TreeNext]_vars

(***************************************************************************)
(* Close binary star generation                                            *)
(* (src/src/astronomy/close_binary_star/constraints/mod.rs).               *)
(* Masses in centi-Msol, separations in centi-AU, eccentricities in        *)
(* tenths.                                                                 *)
(***************************************************************************)
\* Named constants of close_binary_star::constants.
MINIMUM_COMBINED_MASS == 16
MAXIMUM_COMBINED_MASS == 400
MINIMUM_INDIVIDUAL_MASS == 8
MAXIMUM_INDIVIDUAL_MASS == 200
MINIMUM_AVERAGE_SEPARATION == 4
MAXIMUM_AVERAGE_SEPARATION == 40
MINIMUM_ORBITAL_ECCENTRICITY == 1
MAXIMUM_ORBITAL_ECCENTRICITY == 7
MINIMUM_HABITABLE_COMBINED_MASS == 120
MAXIMUM_HABITABLE_COMBINED_MASS == 250
MINIMUM_HABITABLE_INDIVIDUAL_MASS == 60
MAXIMUM_HABITABLE_INDIVIDUAL_MASS == 140
MAXIMUM_HABITABLE_SEPARATION == 10
MINIMUM_HABITABLE_AGE == 4000
MINIMUM_MAIN_SEQUENCE_STAR_MASS == 8

\* Interior points of the draws of generate.
EccentricityGrid == {4}
SeparationGrid == {8}
CombinedMassGrid == {100, 160}

\* Default::default setting the habitable combined masses.
Constraints_default_HabitableMasses ==
    [minimum_combined_mass |-> Some(MINIMUM_HABITABLE_COMBINED_MASS),
     maximum_combined_mass |-> Some(MAXIMUM_HABITABLE_COMBINED_MASS),
     minimum_individual_mass |-> Some(MINIMUM_INDIVIDUAL_MASS),
     maximum_individual_mass |-> Some(MAXIMUM_INDIVIDUAL_MASS),
     minimum_average_separation |-> None,
     maximum_average_separation |-> None,
     minimum_orbital_eccentricity |-> Some(MINIMUM_ORBITAL_ECCENTRICITY),
     maximum_orbital_eccentricity |-> Some(MAXIMUM_ORBITAL_ECCENTRICITY),
     minimum_age |-> None,
     maximum_age |-> None,
     enforce_habitability |-> FALSE]

\* impl Default for Constraints
Constraints_default ==
    [minimum_combined_mass |-> Some(MINIMUM_COMBINED_MASS),
     maximum_combined_mass |-> Some(MAXIMUM_COMBINED_MASS),
     minimum_individual_mass |-> Some(MINIMUM_INDIVIDUAL_MASS),
     maximum_individual_mass |-> Some(MAXIMUM_INDIVIDUAL_MASS),
     minimum_average_separation |-> None,
     maximum_average_separation |-> None,
     minimum_orbital_eccentricity |-> Some(MINIMUM_ORBITAL_ECCENTRICITY),
     maximum_orbital_eccentricity |-> Some(MAXIMUM_ORBITAL_ECCENTRICITY),
     minimum_age |-> None,
     maximum_age |-> None,
     enforce_habitability |-> FALSE]

\* Constraints::habitable
Constraints_habitable ==
    [Constraints_default EXCEPT
       !.minimum_combined_mass = Some(MINIMUM_HABITABLE_COMBINED_MASS),
       !.maximum_combined_mass = Some(MAXIMUM_HABITABLE_COMBINED_MASS),
       !.minimum_individual_mass = Some(MINIMUM_HABITABLE_INDIVIDUAL_MASS),
       !.maximum_individual_mass = Some(MAXIMUM_HABITABLE_INDIVIDUAL_MASS),
       !.maximum_average_separation = Some(MAXIMUM_HABITABLE_SEPARATION),
       !.minimum_age = Some(MINIMUM_HABITABLE_AGE),
       !.enforce_habitability = TRUE]

\* The least n with n * n >= k, and the greatest n with n * n <= k.
CeilSqrt(k) == CHOOSE n \in 0..46340 : n * n >= k /\ (n = 0 \/ (n - 1) * (n - 1) < k)
FloorSqrt(k) == CHOOSE n \in 0..46340 : n * n <= k /\ (n + 1) * (n + 1) > k

\* (1.1 * (4.0 * maximum_average_separation * (1.0 + orbital_eccentricity))
\*    .powf(2.0)).powf(1.0 / 4.0)
\* is the fourth root of Quartic / 10^8 Msol^4: the value in centi-Msol is the
\* fourth root of Quartic, a real the integers bracket.
Quartic(maximum_average_separation, orbital_eccentricity) ==
    1760 * maximum_average_separation * maximum_average_separation
         * (10 + orbital_eccentricity) * (10 + orbital_eccentricity)

\* mass >= the recomputed minimum, and the recomputed minimum >= mass.
AtLeastRecomputed(mass, quartic) == mass * mass >= CeilSqrt(quartic)
RecomputedAtLeast(quartic, mass) == FloorSqrt(quartic) >= mass * mass
\* The least whole number of centi-Msol in the recomputed range.
RecomputedCeiling(quartic) == CeilSqrt(CeilSqrt(quartic))

\* CloseBinaryStar::from_stars: the two stars with their separation and
\* eccentricity.
from_stars(primary, secondary, average_separation, orbital_eccentricity) ==
    Ok([primary |-> primary, secondary |-> secondary,
        average_separation |-> average_separation,
        orbital_eccentricity |-> orbital_eccentricity])

\* Star::from_mass for a mass in centi-Msol: the star constructor
\* Star::get_main_sequence_from_mass, fed milli-Msol.
Star_from_mass(mass) == get_main_sequence_from_mass(10 * mass)

CbAbort ==
    /\ cb_pc' = "aborted"
    /\ cb_result' = Panic

\* Lines 83-102: the bounds resolved against the named constants.
CbResolve ==
    /\ cb_pc = "idle"
    /\ cb' = [NoLocals EXCEPT
         !.minimum_combined_mass =
             unwrap_or(cb_constraints.minimum_combined_mass, MINIMUM_COMBINED_MASS),
         !.maximum_combined_mass =
             unwrap_or(cb_constraints.maximum_combined_mass, MAXIMUM_COMBINED_MASS),
         !.minimum_orbital_eccentricity =
             unwrap_or(cb_constraints.minimum_orbital_eccentricity, MINIMUM_ORBITAL_ECCENTRICITY),
         !.maximum_orbital_eccentricity =
             unwrap_or(cb_constraints.maximum_orbital_eccentricity, MAXIMUM_ORBITAL_ECCENTRICITY),
         !.minimum_average_separation =
             unwrap_or(cb_constraints.minimum_average_separation, MINIMUM_AVERAGE_SEPARATION),
         !.maximum_average_separation =
             unwrap_or(cb_constraints.maximum_average_separation, MAXIMUM_AVERAGE_SEPARATION)]
    /\ cb_pc' = "eccentricity"
    /\ UNCHANGED <<cb_constraints, cb_result>>
    /\ UNCHANGED notCb

\* Line 103: the eccentricity draw.
CbDrawEccentricity ==
    /\ cb_pc = "eccentricity"
    /\ LET range == GenRange(cb.minimum_orbital_eccentricity,
                             cb.maximum_orbital_eccentricity, EccentricityGrid)
       IN  IF range = {}
           THEN CbAbort /\ UNCHANGED cb
           ELSE /\ \E draw \in range : cb' = [cb EXCEPT !.orbital_eccentricity = draw]
                /\ cb_pc' = "separation"
                /\ UNCHANGED cb_result
    /\ UNCHANGED cb_constraints
    /\ UNCHANGED notCb

\* Line 105: the average separation draw.
CbDrawSeparation ==
    /\ cb_pc = "separation"
    /\ LET range == GenRange(cb.minimum_average_separation,
                             cb.maximum_average_separation, SeparationGrid)
       IN  IF range = {}
           THEN CbAbort /\ UNCHANGED cb
           ELSE /\ \E draw \in range : cb' = [cb EXCEPT !.average_separation = draw]
                /\ cb_pc' = "combined"
                /\ UNCHANGED cb_result
    /\ UNCHANGED cb_constraints
    /\ UNCHANGED notCb

\* The combined masses gen_range(minimum_combined_mass..maximum_combined_mass)
\* returns when habitability is enforced and the minimum is the recomputed
\* one: the least whole mass of the range and the grid points inside it.
RecomputedRange(quartic, maximum_combined_mass) ==
    {mass \in {RecomputedCeiling(quartic)} \cup CombinedMassGrid :
        AtLeastRecomputed(mass, quartic) /\ mass < maximum_combined_mass}

\* The combined mass draw from the resolved minimum_combined_mass, whether
\* habitability is enforced or not.
CbDrawCombinedMass_CallerMinimum ==
    /\ cb_pc = "combined"
    /\ LET range == GenRange(cb.minimum_combined_mass, cb.maximum_combined_mass,
                             CombinedMassGrid)
       IN  IF range = {}
           THEN CbAbort /\ UNCHANGED cb
           ELSE /\ \E draw \in range : cb' = [cb EXCEPT !.combined_mass = draw]
                /\ cb_pc' = "primary"
                /\ UNCHANGED cb_result
    /\ UNCHANGED cb_constraints
    /\ UNCHANGED notCb

\* Lines 110-115: the recomputation of minimum_combined_mass under
\* enforce_habitability, and the combined mass draw.
CbDrawCombinedMass ==
    /\ cb_pc = "combined"
    /\ LET quartic == Quartic(cb.maximum_average_separation, cb.orbital_eccentricity)
           empty == IF cb_constraints.enforce_habitability
                    THEN RecomputedAtLeast(quartic, cb.maximum_combined_mass)
                    ELSE cb.minimum_combined_mass >= cb.maximum_combined_mass
           range == IF cb_constraints.enforce_habitability
                    THEN RecomputedRange(quartic, cb.maximum_combined_mass)
                    ELSE GenRange(cb.minimum_combined_mass, cb.maximum_combined_mass,
                                  CombinedMassGrid)
           minimum == IF cb_constraints.enforce_habitability
                      THEN RecomputedCeiling(quartic)
                      ELSE cb.minimum_combined_mass
       IN  IF empty
           THEN CbAbort /\ cb' = [cb EXCEPT !.minimum_combined_mass = minimum]
           ELSE /\ \E draw \in range :
                     cb' = [cb EXCEPT !.minimum_combined_mass = minimum,
                                      !.combined_mass = draw]
                /\ cb_pc' = "primary"
                /\ UNCHANGED cb_result
    /\ UNCHANGED cb_constraints
    /\ UNCHANGED notCb

\* The primary mass drawn below half of the combined mass.
CbDrawPrimaryMass_LighterPrimary ==
    /\ cb_pc = "primary"
    /\ LET range == {mass \in {MINIMUM_MAIN_SEQUENCE_STAR_MASS + 1,
                               cb.combined_mass \div 2 - 1} :
                        mass > MINIMUM_MAIN_SEQUENCE_STAR_MASS
                          /\ 2 * mass < cb.combined_mass}
       IN  IF range = {}
           THEN CbAbort /\ UNCHANGED cb
           ELSE /\ \E draw \in range :
                     cb' = [cb EXCEPT !.primary_mass = draw,
                                      !.secondary_mass = cb.combined_mass - draw]
                /\ cb_pc' = "stars"
                /\ UNCHANGED cb_result
    /\ UNCHANGED cb_constraints
    /\ UNCHANGED notCb

\* Lines 116-119: primary_mass = rng.gen_range(half..top), the least whole
\* mass of the range or the greatest, and secondary_mass.
CbDrawPrimaryMass ==
    /\ cb_pc = "primary"
    /\ LET top == cb.combined_mass - MINIMUM_MAIN_SEQUENCE_STAR_MASS
           empty == cb.combined_mass >= 2 * top
           range == {mass \in {(cb.combined_mass + 1) \div 2, top - 1} :
                        2 * mass >= cb.combined_mass /\ mass < top}
       IN  IF empty
           THEN CbAbort /\ UNCHANGED cb
           ELSE /\ \E draw \in range :
                     cb' = [cb EXCEPT !.primary_mass = draw,
                                      !.secondary_mass = cb.combined_mass - draw]
                /\ cb_pc' = "stars"
                /\ UNCHANGED cb_result
    /\ UNCHANGED cb_constraints
    /\ UNCHANGED notCb

\* Lines 120-129: the two stars, each ending the call on a failure, and the
\* pair.
CbMakeStars ==
    /\ cb_pc = "stars"
    /\ \E primary \in Star_from_mass(cb.primary_mass) :
         IF Panicked(primary) THEN CbAbort
         ELSE IF ~primary.ok THEN cb_result' = primary /\ cb_pc' = "returned"
         ELSE \E secondary \in Star_from_mass(cb.secondary_mass) :
                IF Panicked(secondary) THEN CbAbort
                ELSE IF ~secondary.ok THEN cb_result' = secondary /\ cb_pc' = "returned"
                ELSE /\ cb_result' = from_stars(primary.val, secondary.val,
                                                cb.average_separation, cb.orbital_eccentricity)
                     /\ cb_pc' = "returned"
    /\ UNCHANGED <<cb_constraints, cb>>
    /\ UNCHANGED notCb

\* Constraints { minimum_average_separation: Some(0.05),
\*   maximum_average_separation: Some(0.1), minimum_orbital_eccentricity: Some(0.1),
\*   maximum_orbital_eccentricity: Some(0.7), maximum_combined_mass: Some(0.6),
\*   ..Constraints::habitable() }
\* Every bound generate reads before the combined mass draw is the caller's.
NarrowHabitableConstraints ==
    [Constraints_habitable EXCEPT
       !.minimum_average_separation = Some(5),
       !.maximum_average_separation = Some(10),
       !.minimum_orbital_eccentricity = Some(1),
       !.maximum_orbital_eccentricity = Some(7),
       !.maximum_combined_mass = Some(60)]

\* A record with every optional field unset.
Constraints_unset ==
    [minimum_combined_mass |-> None,
     maximum_combined_mass |-> None,
     minimum_individual_mass |-> None,
     maximum_individual_mass |-> None,
     minimum_average_separation |-> None,
     maximum_average_separation |-> None,
     minimum_orbital_eccentricity |-> None,
     maximum_orbital_eccentricity |-> None,
     minimum_age |-> None,
     maximum_age |-> None,
     enforce_habitability |-> FALSE]

\* Constraints { minimum_orbital_eccentricity: Some(0.5),
\*   maximum_orbital_eccentricity: Some(0.5), ..Constraints::default() }
EqualEccentricityConstraints ==
    [Constraints_default EXCEPT
       !.minimum_orbital_eccentricity = Some(5),
       !.maximum_orbital_eccentricity = Some(5)]

\* Constraints { minimum_combined_mass: Some(3.0), maximum_combined_mass: Some(4.0),
\*   minimum_individual_mass: Some(0.1), maximum_individual_mass: Some(0.5),
\*   minimum_average_separation: Some(0.05), maximum_average_separation: Some(0.1),
\*   minimum_orbital_eccentricity: Some(0.1), maximum_orbital_eccentricity: Some(0.7),
\*   ..Constraints::default() }
HeavyPairConstraints ==
    [Constraints_default EXCEPT
       !.minimum_combined_mass = Some(300),
       !.maximum_combined_mass = Some(400),
       !.minimum_individual_mass = Some(10),
       !.maximum_individual_mass = Some(50),
       !.minimum_average_separation = Some(5),
       !.maximum_average_separation = Some(10),
       !.minimum_orbital_eccentricity = Some(1),
       !.maximum_orbital_eccentricity = Some(7)]

\* The constraint records a caller passes: the two presets, the record with
\* nothing set, and records with a caller's own bounds.
CbConstraintsRecords ==
    { Constraints_default,
      Constraints_habitable,
      Constraints_unset,
      NarrowHabitableConstraints,
      EqualEccentricityConstraints,
      HeavyPairConstraints,
      [Constraints_habitable EXCEPT !.maximum_combined_mass = Some(70)] }

CbInit ==
    /\ cb_constraints \in CbConstraintsRecords
    /\ CbIdle
    /\ SysNotCalled
    /\ TreeIdle
    /\ AggIdle
    /\ StNotCalled
    /\ HostNotCalled

CbNext ==
    \/ CbResolve
    \/ CbDrawEccentricity
    \/ CbDrawSeparation
    \/ CbDrawCombinedMass
    \/ CbDrawPrimaryMass
    \/ CbMakeStars

SpecCb == CbInit /\ [][CbNext]_vars

(***************************************************************************)
(* Star generation (src/src/astronomy/star/constraints/mod.rs).            *)
(* Masses in milli-Msol, ages in Myr.                                      *)
(***************************************************************************)
\* Named constants of star::constants.
MINIMUM_HABITABLE_MASS == 600
MAXIMUM_HABITABLE_MASS == 1400
Star_MINIMUM_HABITABLE_AGE == 4000

\* Interior points of the mass draw.
StarMassGrid == {700, 1000, 1390}

\* get_random_spectral_class and get_random_habitable_spectral_class: a
\* weighted categorical draw over the named classes, restricted to the
\* habitable subset in the second.
get_random_spectral_class == {"F", "G", "K", "M"}
get_random_habitable_spectral_class == {"F", "G", "K"}

\* spectral_class_to_mass_range: the mass range of a class.
spectral_class_to_mass_range(class) ==
    CASE class = "M" -> [start |-> 80, end |-> 450]
      [] class = "K" -> [start |-> 450, end |-> 800]
      [] class = "G" -> [start |-> 800, end |-> 1040]
      [] class = "F" -> [start |-> 1040, end |-> 1400]

\* spectral_class_to_habitable_mass_range: the part of the class's range
\* inside the habitable masses.
spectral_class_to_habitable_mass_range(class) ==
    LET range == spectral_class_to_mass_range(class)
    IN  [start |-> IF range.start < MINIMUM_HABITABLE_MASS
                   THEN MINIMUM_HABITABLE_MASS ELSE range.start,
         end |-> IF range.end > MAXIMUM_HABITABLE_MASS
                 THEN MAXIMUM_HABITABLE_MASS ELSE range.end]

\* impl Default for Constraints
Star_Constraints_default ==
    [minimum_mass |-> None, maximum_mass |-> None, make_habitable |-> FALSE]

\* Constraints::habitable
Star_Constraints_habitable ==
    [Star_Constraints_default EXCEPT
       !.minimum_mass = Some(MINIMUM_HABITABLE_MASS),
       !.maximum_mass = Some(MAXIMUM_HABITABLE_MASS),
       !.make_habitable = TRUE]

StAbort ==
    /\ st_pc' = "aborted"
    /\ st_result' = Panic

\* Lines 39-52: the spectral class draw and the mass range of the class.
StDrawClass ==
    /\ st_pc = "idle"
    /\ \E random_spectral_class \in
            (IF st_constraints.make_habitable
             THEN get_random_habitable_spectral_class
             ELSE get_random_spectral_class) :
         LET random_range ==
                 IF st_constraints.make_habitable
                 THEN spectral_class_to_habitable_mass_range(random_spectral_class)
                 ELSE spectral_class_to_mass_range(random_spectral_class)
         IN  st' = [st EXCEPT !.random_spectral_class = random_spectral_class,
                              !.lower_bound_mass = random_range.start,
                              !.upper_bound_mass = random_range.end]
    /\ st_pc' = "mass"
    /\ UNCHANGED <<st_constraints, st_result>>
    /\ UNCHANGED notStar

\* Line 53: the mass draw.
StDrawMass ==
    /\ st_pc = "mass"
    /\ LET range == GenRange(st.lower_bound_mass, st.upper_bound_mass, StarMassGrid)
       IN  IF range = {}
           THEN StAbort /\ UNCHANGED st
           ELSE /\ \E mass \in range : st' = [st EXCEPT !.mass = mass]
                /\ st_pc' = "from_mass"
                /\ UNCHANGED st_result
    /\ UNCHANGED st_constraints
    /\ UNCHANGED notStar

\* Line 57: Star::from_mass(rng, mass)?, the star as the constructor leaves
\* it.  st_result holds it until the age is redrawn.
StFromMass ==
    /\ st_pc = "from_mass"
    /\ \E result \in get_main_sequence_from_mass(st.mass) :
         IF Panicked(result) THEN StAbort /\ UNCHANGED st
         ELSE IF ~result.ok THEN /\ st_result' = result
                                 /\ st_pc' = "returned"
                                 /\ UNCHANGED st
         ELSE /\ st' = [st EXCEPT
                   !.minimum_age = IF st_constraints.make_habitable
                                   THEN Star_MINIMUM_HABITABLE_AGE
                                   ELSE result.val.life_expectancy \div 10,
                   !.maximum_age = (9 * result.val.life_expectancy) \div 10]
              /\ st_result' = [ok |-> FALSE, val |-> result.val, err |-> "none"]
              /\ st_pc' = "age"
    /\ UNCHANGED st_constraints
    /\ UNCHANGED notStar

\* The age drawn from the whole life of the star, both ends included.
StDrawAge_WholeLife ==
    /\ st_pc = "age"
    /\ \E current_age \in {0, st_result.val.life_expectancy} :
         st_result' = Ok([st_result.val EXCEPT !.current_age = current_age])
    /\ st_pc' = "returned"
    /\ UNCHANGED <<st_constraints, st>>
    /\ UNCHANGED notStar

\* Lines 59-69: result.current_age = rng.gen_range(minimum_age..maximum_age),
\* and the return.
StDrawAge ==
    /\ st_pc = "age"
    /\ LET range == GenRange(st.minimum_age, st.maximum_age,
                             AgeGrid(st_result.val.life_expectancy))
       IN  IF range = {}
           THEN StAbort
           ELSE /\ \E current_age \in range :
                     st_result' = Ok([st_result.val EXCEPT !.current_age = current_age])
                /\ st_pc' = "returned"
    /\ UNCHANGED <<st_constraints, st>>
    /\ UNCHANGED notStar

\* The constraint records a caller passes: the two presets, and records
\* with the caller's own mass bounds.
StarGenConstraintsRecords ==
    { Star_Constraints_default,
      Star_Constraints_habitable,
      [Star_Constraints_default EXCEPT !.minimum_mass = Some(900),
                                       !.maximum_mass = Some(1100)],
      [Star_Constraints_habitable EXCEPT !.minimum_mass = Some(2000),
                                         !.maximum_mass = Some(3000)] }

StInit ==
    /\ st_constraints \in StarGenConstraintsRecords
    /\ StIdle
    /\ SysNotCalled
    /\ TreeIdle
    /\ AggIdle
    /\ CbNotCalled
    /\ HostNotCalled

StNext ==
    \/ StDrawClass
    \/ StDrawMass
    \/ StFromMass
    \/ StDrawAge

SpecStar == StInit /\ [][StNext]_vars

(***************************************************************************)
(* The aggregations applied to the trees get_random_constrained builds.    *)
(* A tree grows from the leaves up, as the returns of the recursive calls  *)
(* build it: each step is the Double arm applied to the tree so far and a  *)
(* second subtree, an equal one or a single star.                          *)
(***************************************************************************)
\* get_count returns u8.
U8_MAX == 255

\* `+` on u8: a panic with overflow checks on, wrapping without them.
U8Add(a, b) ==
    IF a + b <= U8_MAX THEN Ok(a + b)
    ELSE IF overflow_checks THEN Panic
    ELSE Ok((a + b) % (U8_MAX + 1))

RECURSIVE get_count(_)
get_count(self) ==
    IF self.type = "Single" THEN Ok(1)
    ELSE LET count1 == get_count(self.first)
             count2 == get_count(self.second)
         IN  IF Panicked(count1) THEN count1
             ELSE IF Panicked(count2) THEN count2
             ELSE U8Add(count1.val, count2.val)

\* StarSystem::get_stellar_count
get_stellar_count(star_system) == get_count(star_system.subsystem)

RECURSIVE Depth(_)
Depth(t) ==
    IF t.type = "Single" THEN 0
    ELSE LET d1 == Depth(t.first)
             d2 == Depth(t.second)
         IN  1 + (IF d1 >= d2 THEN d1 ELSE d2)

\* The stars the Single arm returns under the default constraints.
GeneratedStars ==
    {r.val : r \in {o \in get_random_main_sequence_constrained(StarConstraints_default) : o.ok}}

\* Both recursive calls made the same draws and returned equal subtrees.
PairWithTwin ==
    /\ Depth(subsystem) < MaxTreeDepth
    /\ subsystem' = MakeDouble(subsystem, subsystem)
    /\ UNCHANGED overflow_checks
    /\ UNCHANGED notAgg

\* The second recursive call returned a single star.
PairWithSingle ==
    /\ Depth(subsystem) < MaxTreeDepth
    /\ Depth(subsystem) < MaxUnevenDepth
    /\ \E star \in GeneratedStars :
          subsystem' = MakeDouble(subsystem, Single(star))
    /\ UNCHANGED overflow_checks
    /\ UNCHANGED notAgg

AggInit ==
    /\ subsystem \in {Single(star) : star \in GeneratedStars}
    /\ overflow_checks \in BOOLEAN
    /\ SysNotCalled
    /\ TreeIdle
    /\ CbNotCalled
    /\ StNotCalled
    /\ HostNotCalled

AggNext ==
    \/ PairWithTwin
    \/ PairWithSingle

SpecAgg == AggInit /\ [][AggNext]_vars

SysInit ==
    /\ sys_constraints \in [retries : {None} \cup {Some(r) : r \in 0..MaxRetries}]
    /\ SysIdle
    /\ TreeIdle
    /\ AggIdle
    /\ CbNotCalled
    /\ StNotCalled
    /\ HostNotCalled

SysNext ==
    \/ FromConstraintsEnter
    \/ LoopIteration

SpecSys == SysInit /\ [][SysNext]_vars

\* from_constraints when every call of subsystem generation returns: an
\* iteration of the loop that can run does run.
SpecSysFair == SysInit /\ [][SysNext]_vars /\ WF_vars(LoopIteration)

(***************************************************************************)
(* Host star generation                                                    *)
(* (src/src/astronomy/host_star/constraints/mod.rs)                        *)
(***************************************************************************)
\* The named constant of host_star::constants, in 1/1000.
BINARY_STAR_PROBABILITY == 330

\* rng.gen_range(low..=high): a point of the closed range, an end of it or a
\* point of `grid` inside it; empty when low > high, where gen_range panics.
GenRangeInclusive(low, high, grid) ==
    IF low <= high THEN {low, high} \cup {p \in grid : low < p /\ p < high} ELSE {}

\* Interior points of the selection draw: the probability itself and a point
\* above it.
SelectionGrid == {BINARY_STAR_PROBABILITY, 999}

\* The two variants of HostStar.
HostStar_Star(star) == [type |-> "Star", star |-> star]
HostStar_CloseBinaryStar(close_binary_star) ==
    [type |-> "CloseBinaryStar", close_binary_star |-> close_binary_star]

\* Constraints::default() of the host star
Host_Constraints_default ==
    [star_constraints |-> None, close_binary_star_constraints |-> None]

\* Constraints::habitable() of the host star
Host_Constraints_habitable ==
    [star_constraints |-> Some(Star_Constraints_habitable),
     close_binary_star_constraints |-> Some(Constraints_habitable)]

\* Star generation has not been invoked: no step of it was taken.
StarNotInvoked ==
    /\ st_pc = "not_called"
    /\ st = NoStarLocals
    /\ st_result = NoRet

\* Close binary star generation has not been invoked.
CloseBinaryStarNotInvoked ==
    /\ cb_pc = "not_called"
    /\ cb = NoLocals
    /\ cb_result = NoRet

\* The selection with the comparison turned into >=.
HostDrawIsSolitary_AtLeastProbability ==
    /\ host_pc = "idle"
    /\ \E draw \in GenRangeInclusive(0, 1000, SelectionGrid) :
         /\ selection_draw' = draw
         /\ is_solitary' = (draw >= BINARY_STAR_PROBABILITY)
         /\ IF is_solitary'
            THEN /\ host_pc' = "star"
                 /\ st_constraints' =
                        unwrap_or(host_constraints.star_constraints, Star_Constraints_default)
                 /\ st_pc' = "idle"
                 /\ UNCHANGED <<st, st_result, cbVars>>
            ELSE /\ host_pc' = "close_binary"
                 /\ cb_constraints' =
                        unwrap_or(host_constraints.close_binary_star_constraints,
                                  Constraints_default)
                 /\ cb_pc' = "idle"
                 /\ UNCHANGED <<cb, cb_result, starVars>>
    /\ UNCHANGED <<host_constraints, host_result>>
    /\ UNCHANGED notHost

\* Line 41 and the entry of the selected arm: the selection draw, the
\* sub-record resolved against its default, and the call of its generate.
HostDrawIsSolitary ==
    /\ host_pc = "idle"
    /\ \E draw \in GenRangeInclusive(0, 1000, SelectionGrid) :
         /\ selection_draw' = draw
         /\ is_solitary' = (draw > BINARY_STAR_PROBABILITY)
         /\ IF is_solitary'
            THEN /\ host_pc' = "star"
                 /\ st_constraints' =
                        unwrap_or(host_constraints.star_constraints, Star_Constraints_default)
                 /\ st_pc' = "idle"
                 /\ UNCHANGED <<st, st_result, cbVars>>
            ELSE /\ host_pc' = "close_binary"
                 /\ cb_constraints' =
                        unwrap_or(host_constraints.close_binary_star_constraints,
                                  Constraints_default)
                 /\ cb_pc' = "idle"
                 /\ UNCHANGED <<cb, cb_result, starVars>>
    /\ UNCHANGED <<host_constraints, host_result>>
    /\ UNCHANGED notHost

\* Line 45: result = Star(constraints.generate(rng)?), once generate has ended.
HostStarReturns ==
    /\ host_pc = "star"
    /\ st_pc \in {"returned", "aborted"}
    /\ IF Panicked(st_result)
       THEN /\ host_result' = Panic
            /\ host_pc' = "aborted"
       ELSE /\ host_result' = IF st_result.ok THEN Ok(HostStar_Star(st_result.val))
                              ELSE st_result
            /\ host_pc' = "returned"
    /\ UNCHANGED <<host_constraints, selection_draw, is_solitary, starVars, cbVars>>
    /\ UNCHANGED notHost

\* Line 50: result = CloseBinaryStar(constraints.generate(rng)?), once
\* generate has ended.
HostCloseBinaryStarReturns ==
    /\ host_pc = "close_binary"
    /\ cb_pc \in {"returned", "aborted"}
    /\ IF Panicked(cb_result)
       THEN /\ host_result' = Panic
            /\ host_pc' = "aborted"
       ELSE /\ host_result' = IF cb_result.ok
                              THEN Ok(HostStar_CloseBinaryStar(cb_result.val))
                              ELSE cb_result
            /\ host_pc' = "returned"
    /\ UNCHANGED <<host_constraints, selection_draw, is_solitary, starVars, cbVars>>
    /\ UNCHANGED notHost

\* Constraints { minimum_combined_mass: Some(300.0),
\*   maximum_combined_mass: Some(400.0), ..Constraints::default() }
\* of the close binary star: a pair whose primary is above the main sequence.
MassivePairConstraints ==
    [Constraints_default EXCEPT
       !.minimum_combined_mass = Some(30000),
       !.maximum_combined_mass = Some(40000)]

\* The constraint records a caller passes: the two presets, and records with
\* one sub-record set.
HostConstraintsRecords ==
    { Host_Constraints_default,
      Host_Constraints_habitable,
      [Host_Constraints_default EXCEPT
          !.close_binary_star_constraints = Some(MassivePairConstraints)],
      [Host_Constraints_default EXCEPT
          !.close_binary_star_constraints = Some(EqualEccentricityConstraints)],
      [Host_Constraints_default EXCEPT
          !.star_constraints = Some(Star_Constraints_habitable)] }

HostInit ==
    /\ host_constraints \in HostConstraintsRecords
    /\ host_pc = "idle"
    /\ selection_draw = 0
    /\ is_solitary = FALSE
    /\ host_result = NoRet
    /\ st_constraints = NoVal
    /\ StarNotInvoked
    /\ cb_constraints = NoVal
    /\ CloseBinaryStarNotInvoked
    /\ SysNotCalled
    /\ TreeIdle
    /\ AggIdle

HostNext ==
    \/ HostDrawIsSolitary
    \/ StNext
    \/ CbNext
    \/ HostStarReturns
    \/ HostCloseBinaryStarReturns

SpecHost == HostInit /\ [][HostNext]_vars

(***************************************************************************)
(* Claims about StarSystem::from_constraints, checked under SpecSys.       *)
(***************************************************************************)
\* The value r of the `retries` constraint, 10 when unset.
RetriesConstraint == unwrap_or(sys_constraints.retries, DEFAULT_RETRIES)

\* C1 as stated: one call of from_constraints invokes subsystem generation
\* at most r times, r the `retries` constraint (10 when unset).
C1_AtMostRetriesAttempts == attempts <= RetriesConstraint

\* C1, amended: one call of from_constraints invokes subsystem generation
\* at most r + 1 times: the first attempt and then at most r retries.
C1_AtMostRetriesPlusOneAttempts == attempts <= RetriesConstraint + 1

\* A call with retries unset that returned after its 11th attempt.
C1_Witness ==
    /\ sys_pc = "returned"
    /\ ~sys_constraints.retries.some
    /\ attempts = DEFAULT_RETRIES + 1

\* C2: with retries = 0 a call makes exactly one attempt: it returns Ok if
\* the attempt succeeded and NoSuitableSubsystemsCouldBeGenerated otherwise,
\* and never starts a second attempt.
C2_ZeroRetriesOneAttempt ==
    sys_constraints.retries = Some(0) =>
        /\ attempts <= 1
        /\ attempts = 1 => sys_pc = "returned"
        /\ sys_pc = "returned" =>
             /\ attempts = 1
             /\ sys_result.ok <=> log[1].ok
             /\ ~sys_result.ok => sys_result = Err(NoSuitableSubsystemsCouldBeGenerated)

\* A call with retries = 0 whose only attempt failed.
C2_Witness ==
    /\ sys_constraints.retries = Some(0)
    /\ sys_pc = "returned"
    /\ attempts = 1
    /\ ~log[1].ok
    /\ ~sys_result.ok

\* C3: Ok holds the subsystem of the first successful attempt, which is the
\* last attempt made; Err is returned only when every attempt failed and is
\* always NoSuitableSubsystemsCouldBeGenerated, whatever the attempts' errors.
C3_FirstSuccessOrSingleFailure ==
    /\ Len(log) = attempts
    /\ sys_pc # "returned" => \A i \in 1..Len(log) : ~log[i].ok
    /\ sys_pc = "returned" =>
         /\ attempts >= 1
         /\ \A i \in 1..(Len(log) - 1) : ~log[i].ok
         /\ sys_result.ok <=> log[Len(log)].ok
         /\ sys_result.ok => sys_result.val.subsystem = log[Len(log)].val
         /\ ~sys_result.ok => sys_result = Err(NoSuitableSubsystemsCouldBeGenerated)

\* A call that returned the failure after attempts that failed differently.
C3_Witness ==
    /\ sys_pc = "returned"
    /\ ~sys_result.ok
    /\ \E i, j \in 1..Len(log) : log[i].err # log[j].err

(***************************************************************************)
(* Claims about the subsystem tree, checked under SpecTree.                *)
(***************************************************************************)
\* Every node of a tree, the tree itself included.
RECURSIVE Nodes(_)
Nodes(t) ==
    IF t.type = "Single" THEN {t}
    ELSE {t} \cup Nodes(t.first) \cup Nodes(t.second)

\* The stars of a tree's Single leaves, left to right.
RECURSIVE Leaves(_)
Leaves(t) ==
    IF t.type = "Single" THEN <<t.star>>
    ELSE Leaves(t.first) \o Leaves(t.second)

RECURSIVE SumMass(_)
SumMass(stars) ==
    IF stars = <<>> THEN 0 ELSE Head(stars).mass + SumMass(Tail(stars))

RECURSIVE SumLuminosity(_)
SumLuminosity(stars) ==
    IF stars = <<>> THEN 0 ELSE Head(stars).luminosity + SumLuminosity(Tail(stars))

\* The subsystems the generator holds: the value just returned and the
\* sub_a of every call waiting for its second child.
KnownTrees ==
    (IF ret.ok THEN {ret.val} ELSE {})
      \cup {stack[i].sub_a : i \in {j \in 1..Len(stack) : stack[j].pc = "sub_b"}}

KnownNodes == UNION {Nodes(t) : t \in KnownTrees}
DoubleNodes == {n \in KnownNodes : n.type = "Double"}
SingleNodes == {n \in KnownNodes : n.type = "Single"}

\* C4: every Double node built by get_random_constrained, at every depth and
\* for every pair of children (equal masses included), has
\* first.get_mass() >= second.get_mass().
C4_DoubleOrderedByMass ==
    \A n \in DoubleNodes : get_mass(n.first) >= get_mass(n.second)

\* A returned tree of depth 2 whose first child is a Double of two children
\* of equal mass and is heavier than the second child.
C4_Witness ==
    /\ stack = <<>>
    /\ ret.ok
    /\ ret.val.type = "Double"
    /\ ret.val.first.type = "Double"
    /\ get_mass(ret.val.first.first) = get_mass(ret.val.first.second)
    /\ get_mass(ret.val.first) > get_mass(ret.val.second)

\* C6: get_mass is the sum of the masses of the Single leaves and
\* get_luminosity the sum of their luminosities, however the leaves are
\* grouped into Double nodes.
C6_MassAndLuminositySumOverLeaves ==
    \A n \in KnownNodes :
        /\ get_mass(n) = SumMass(Leaves(n))
        /\ get_luminosity(n) = SumLuminosity(Leaves(n))

\* A returned tree with four leaves that are not all alike.
C6_Witness ==
    /\ stack = <<>>
    /\ ret.ok
    /\ Len(Leaves(ret.val)) = 4
    /\ \E i, j \in 1..4 : Leaves(ret.val)[i].mass # Leaves(ret.val)[j].mass

\* C7: check_habitable of a Double node is Ok if and only if at least one
\* child subtree is habitable, and is NoHabitableZoneFoundInSubsystem exactly
\* when neither child is.
C7_DoubleHabitableIffAChildIs ==
    \A n \in DoubleNodes :
        /\ check_habitable(n).ok <=> (is_habitable(n.first) \/ is_habitable(n.second))
        /\ check_habitable(n) = Err(NoHabitableZoneFoundInSubsystem)
             <=> (~is_habitable(n.first) /\ ~is_habitable(n.second))

\* A returned Double with exactly one habitable child, itself a Double
\* without a habitable child next to a habitable leaf.
C7_Witness ==
    /\ stack = <<>>
    /\ ret.ok
    /\ ret.val.type = "Double"
    /\ is_habitable(ret.val)
    /\ is_habitable(ret.val.first) # is_habitable(ret.val.second)
    /\ \E n \in Nodes(ret.val) : n.type = "Double" /\ ~is_habitable(n)

\* C8: a Single leaf is reported habitable only when its star's mass lies in
\* the life-supporting mass range and its current age is at least the
\* minimum life-supporting age.
C8_LeafHabitableOnlyWithMassAndAge ==
    \A n \in SingleNodes :
        is_habitable(n) =>
            /\ n.star.mass >= MINIMUM_STAR_MASS_TO_SUPPORT_LIFE
            /\ n.star.mass <= MAXIMUM_STAR_MASS_TO_SUPPORT_LIFE
            /\ n.star.current_age >= MINIMUM_STAR_AGE_TO_SUPPORT_LIFE

(***************************************************************************)
(* Claims about the aggregations, checked under SpecAgg.                   *)
(***************************************************************************)
\* C5: for every subsystem tree, whatever its number of leaves, get_count
\* returns exactly the number of Single leaves of the tree.
C5_CountIsNumberOfLeaves ==
    /\ get_count(subsystem) = Ok(Len(Leaves(subsystem)))
    /\ get_stellar_count([subsystem |-> subsystem, name |-> "Steve"])
         = Ok(Len(Leaves(subsystem)))

(***************************************************************************)
(* Claims about close binary star generation, checked under SpecCb.        *)
(***************************************************************************)
ConstraintUnsatisfiable == "ConstraintUnsatisfiable"

\* The combined mass draw has been reached with habitability enforced and a
\* recomputed minimum combined mass at or above the resolved maximum.
RecomputedRangeUnsatisfiable ==
    /\ cb_pc \in {"primary", "stars", "returned", "aborted"}
    /\ cb_constraints.enforce_habitability
    /\ RecomputedAtLeast(Quartic(cb.maximum_average_separation, cb.orbital_eccentricity),
                         cb.maximum_combined_mass)

\* C10: with habitability enforced, whenever the recomputed minimum combined
\* mass is at or above the resolved maximum combined mass, generate returns a
\* ConstraintUnsatisfiable failure: it neither returns a pair nor aborts.
C10_UnsatisfiableRangeIsAFailureValue ==
    RecomputedRangeUnsatisfiable =>
        /\ cb_pc = "returned"
        /\ cb_result = Err(ConstraintUnsatisfiable)

(***************************************************************************)
(* Claims about star generation, checked under SpecStar.                   *)
(***************************************************************************)
\* C12: when the star constraint record sets minimum_mass and/or
\* maximum_mass, the mass of every star generate returns lies inside those
\* overrides.
C12_MassInsideOverrides ==
    (st_pc = "returned" /\ st_result.ok) =>
        /\ st_constraints.minimum_mass.some =>
             st_result.val.mass >= st_constraints.minimum_mass.v
        /\ st_constraints.maximum_mass.some =>
             st_result.val.mass <= st_constraints.maximum_mass.v

\* The age bounds of the claim for a star: inside (0, life_expectancy), with
\* life_expectancy = mass / luminosity * 10.
AgeInsideLife(star) ==
    /\ star.life_expectancy = Times1000Over(star.mass * 10000, star.luminosity)
    /\ 0 < star.current_age
    /\ star.current_age < star.life_expectancy

\* C18: every star returned by star generation has 0 < current_age <
\* life_expectancy with life_expectancy = mass / luminosity * 10; without
\* habitability the age lies in [0.1, 0.9) * life_expectancy, with
\* habitability enforced in [minimum habitable age, 0.9 * life_expectancy).
\* The star Star::from_mass hands over satisfies the first two as well.
C18_AgeInsideLifeExpectancy ==
    /\ st_pc = "age" =>
         /\ AgeInsideLife(st_result.val)
         /\ st_result.val.current_age >= st_result.val.life_expectancy \div 10
         /\ st_result.val.current_age < (9 * st_result.val.life_expectancy) \div 10
    /\ (st_pc = "returned" /\ st_result.ok) =>
         /\ AgeInsideLife(st_result.val)
         /\ st_result.val.current_age < (9 * st_result.val.life_expectancy) \div 10
         /\ IF st_constraints.make_habitable
            THEN st_result.val.current_age >= Star_MINIMUM_HABITABLE_AGE
            ELSE st_result.val.current_age >= st_result.val.life_expectancy \div 10

\* A habitable star returned with the minimum habitable age, which is below
\* a tenth of its life expectancy.
C18_Witness ==
    /\ st_pc = "returned"
    /\ st_result.ok
    /\ st_constraints.make_habitable
    /\ st_result.val.current_age = Star_MINIMUM_HABITABLE_AGE
    /\ 10 * st_result.val.current_age < st_result.val.life_expectancy

(***************************************************************************)
(* Further claims about close binary star generation, checked under SpecCb.*)
(***************************************************************************)
\* The bounds of a constraint record resolved against the named constants.
ResolvedBounds(c) ==
    [minimum_combined_mass |-> unwrap_or(c.minimum_combined_mass, MINIMUM_COMBINED_MASS),
     maximum_combined_mass |-> unwrap_or(c.maximum_combined_mass, MAXIMUM_COMBINED_MASS),
     minimum_individual_mass |-> unwrap_or(c.minimum_individual_mass, MINIMUM_INDIVIDUAL_MASS),
     maximum_individual_mass |-> unwrap_or(c.maximum_individual_mass, MAXIMUM_INDIVIDUAL_MASS),
     minimum_orbital_eccentricity |->
         unwrap_or(c.minimum_orbital_eccentricity, MINIMUM_ORBITAL_ECCENTRICITY),
     maximum_orbital_eccentricity |->
         unwrap_or(c.maximum_orbital_eccentricity, MAXIMUM_ORBITAL_ECCENTRICITY),
     minimum_average_separation |->
         unwrap_or(c.minimum_average_separation, MINIMUM_AVERAGE_SEPARATION),
     maximum_average_separation |->
         unwrap_or(c.maximum_average_separation, MAXIMUM_AVERAGE_SEPARATION)]

\* Every resolved pair of bounds has min <= max.
PairsOrdered(b) ==
    /\ b.minimum_combined_mass <= b.maximum_combined_mass
    /\ b.minimum_individual_mass <= b.maximum_individual_mass
    /\ b.minimum_orbital_eccentricity <= b.maximum_orbital_eccentricity
    /\ b.minimum_average_separation <= b.maximum_average_separation

\* A pair was returned.
PairReturned == cb_pc = "returned" /\ cb_result.ok

\* C13, for the close binary star: for every record whose resolved pairs
\* have min <= max, the eccentricity, the separation, the combined mass and
\* both star masses of the returned pair lie in [min, max) of their own
\* resolved pair.  Star masses are in milli-Msol, bounds in centi-Msol.
C13_SampledFieldsInsideResolvedBounds ==
    LET b == ResolvedBounds(cb_constraints)
    IN  (PairReturned /\ PairsOrdered(b)) =>
          /\ b.minimum_orbital_eccentricity <= cb_result.val.orbital_eccentricity
          /\ cb_result.val.orbital_eccentricity < b.maximum_orbital_eccentricity
          /\ b.minimum_average_separation <= cb_result.val.average_separation
          /\ cb_result.val.average_separation < b.maximum_average_separation
          /\ b.minimum_combined_mass <= cb.combined_mass
          /\ cb.combined_mass < b.maximum_combined_mass
          /\ 10 * b.minimum_individual_mass <= cb_result.val.primary.mass
          /\ cb_result.val.primary.mass < 10 * b.maximum_individual_mass
          /\ 10 * b.minimum_individual_mass <= cb_result.val.secondary.mass
          /\ cb_result.val.secondary.mass < 10 * b.maximum_individual_mass

\* C15: no call of generate ends by aborting: every call ends with an entity
\* or a failure value.
C15_NoGeneratorAborts ==
    /\ cb_pc # "aborted"
    /\ ~Panicked(cb_result)

\* C17: generate on the default() record resolves every bound to the value
\* it resolves to on a record with every optional field unset, and both
\* records leave habitability unenforced, so the draws that follow are made
\* from the same ranges.
C17_DefaultResolvesAsUnset ==
    /\ ResolvedBounds(Constraints_default) = ResolvedBounds(Constraints_unset)
    /\ Constraints_default.enforce_habitability = Constraints_unset.enforce_habitability
    /\ (cb_constraints = Constraints_default /\ cb_pc # "idle") =>
         LET b == ResolvedBounds(Constraints_unset)
         IN  /\ cb.minimum_combined_mass = b.minimum_combined_mass
             /\ cb.maximum_combined_mass = b.maximum_combined_mass
             /\ cb.minimum_orbital_eccentricity = b.minimum_orbital_eccentricity
             /\ cb.maximum_orbital_eccentricity = b.maximum_orbital_eccentricity
             /\ cb.minimum_average_separation = b.minimum_average_separation
             /\ cb.maximum_average_separation = b.maximum_average_separation

\* A pair returned from the default() record.
C17_Witness ==
    /\ cb_constraints = Constraints_default
    /\ PairReturned

\* C19: in every returned pair the primary mass is at least half of the
\* drawn combined mass, the secondary mass at least the minimum main
\* sequence star mass, the primary at least the secondary, and the two add
\* up to the drawn combined mass.
C19_PrimaryAtLeastHalf ==
    PairReturned =>
        /\ 2 * cb_result.val.primary.mass >= 10 * cb.combined_mass
        /\ cb_result.val.secondary.mass >= 10 * MINIMUM_MAIN_SEQUENCE_STAR_MASS
        /\ cb_result.val.primary.mass >= cb_result.val.secondary.mass
        /\ cb_result.val.primary.mass + cb_result.val.secondary.mass = 10 * cb.combined_mass

\* A returned pair whose primary took all of the combined mass it can.
C19_Witness ==
    /\ PairReturned
    /\ cb_result.val.primary.mass > cb_result.val.secondary.mass
    /\ cb_result.val.secondary.mass = 10 * (MINIMUM_MAIN_SEQUENCE_STAR_MASS + 1)

\* The minimum recomputed from the resolved maximum separation and the drawn
\* eccentricity.
RecomputedMinimum ==
    RecomputedCeiling(Quartic(ResolvedBounds(cb_constraints).maximum_average_separation,
                              cb.orbital_eccentricity))

\* C20: the draws are made in the order eccentricity, average separation,
\* combined mass, primary mass; the lower bound of the combined mass draw is
\* the recomputed minimum when habitability is enforced, whatever
\* minimum_combined_mass the caller set, and the resolved
\* minimum_combined_mass otherwise.
C20_DrawOrderAndRecomputedMinimum ==
    /\ cb.average_separation # 0 => cb.orbital_eccentricity # 0
    /\ cb.combined_mass # 0 => cb.average_separation # 0
    /\ cb.primary_mass # 0 => cb.combined_mass # 0
    /\ cb_pc \in {"eccentricity", "separation", "combined"} =>
         cb.minimum_combined_mass = ResolvedBounds(cb_constraints).minimum_combined_mass
    /\ cb.combined_mass # 0 =>
         /\ cb.combined_mass >= cb.minimum_combined_mass
         /\ cb.minimum_combined_mass =
              IF cb_constraints.enforce_habitability
              THEN RecomputedMinimum
              ELSE ResolvedBounds(cb_constraints).minimum_combined_mass

\* A habitable pair whose combined mass is below the minimum_combined_mass
\* of the record.
C20_Witness ==
    /\ PairReturned
    /\ cb_constraints.enforce_habitability
    /\ cb.combined_mass < ResolvedBounds(cb_constraints).minimum_combined_mass

(***************************************************************************)
(* The claim about failure propagation, checked under SpecTree.            *)
(***************************************************************************)
\* How far a call of get_random_constrained has come.
Rank(pc) == CASE pc = "start" -> 0 [] pc = "single" -> 1 [] pc = "sub_a" -> 1 [] pc = "sub_b" -> 2

\* A child call has just returned a failure to the innermost active call.
ChildFailed ==
    /\ stack # <<>>
    /\ Top.pc \in {"sub_a", "sub_b"}
    /\ Returned(ret)
    /\ ~ret.ok

\* C14, for the subsystem tree: no step of a call goes back to a child it has
\* already invoked, and when a child returns a failure the next step ends
\* the call with that failure and starts no other child: after a failed
\* first child the second child is never generated.
C14_FirstFailureEndsTheCall ==
    [][ /\ \A i \in 1..Len(stack) :
             i <= Len(stack') => Rank(stack'[i].pc) >= Rank(stack[i].pc)
        /\ ChildFailed => (stack' = Pop /\ ret' = ret)
        /\ (Returned(ret) /\ ~ret.ok) => Len(stack') <= Len(stack) ]_vars

\* The first child of a Double nested in the first child of a Double has
\* returned a failure value.
C14_Witness ==
    /\ Len(stack) = 2
    /\ stack[1].pc = "sub_a"
    /\ ChildFailed
    /\ Top.pc = "sub_a"
    /\ ~Panicked(ret)

(***************************************************************************)
(* The claim about determinism, checked under SpecSys.                     *)
(***************************************************************************)
\* from_constraints as a function of the retries value and of the results
\* the subsystem generator returns on the stream, from attempt i on: the
\* value returned and the number of attempts consumed.
RECURSIVE Replay(_, _, _)
Replay(results, i, retries_left) ==
    IF i > Len(results) THEN [result |-> NoRet, consumed |-> Len(results)]
    ELSE IF results[i].ok
    THEN [result |-> Ok([subsystem |-> results[i].val, name |-> "Steve"]), consumed |-> i]
    ELSE IF retries_left = 0
    THEN [result |-> Err(NoSuitableSubsystemsCouldBeGenerated), consumed |-> i]
    ELSE Replay(results, i + 1, retries_left - 1)

Drawing(frame) == frame.pc \in {"start", "single"}

\* C21: subsystem tree generation is strictly sequential.  Only the innermost
\* call draws, every call underneath it is waiting for a child; a call makes
\* its Bernoulli draw before it starts a child; and a call starts its second
\* child only in the step in which its first child has returned, when no call
\* of the first child's subtree is left, so the draws of the two subtrees
\* never interleave.
C21_SubtreesGeneratedInSequence ==
    [][ /\ \A i \in 1..(Len(stack') - 1) : ~Drawing(stack'[i])
        /\ \A i \in 1..(Len(stack) - 1) : i <= Len(stack') => stack'[i] = stack[i]
        /\ Len(stack') <= Len(stack) + 1
        /\ Len(stack') = Len(stack) + 1 =>
             /\ stack'[Len(stack')] = Frame("start", NoVal)
             /\ Len(stack) >= 1 =>
                  \/ Top.pc = "start" /\ stack'[Len(stack)].pc = "sub_a"
                  \/ Top.pc = "sub_a" /\ stack'[Len(stack)].pc = "sub_b"
        /\ \A i \in 1..Len(stack) :
             (i <= Len(stack') /\ stack'[i].pc = "sub_b" /\ stack[i].pc # "sub_b") =>
                 /\ i = Len(stack)
                 /\ stack[i].pc = "sub_a"
                 /\ ret.ok
                 /\ stack'[i].sub_a = ret.val
                 /\ Len(stack') = i + 1 ]_vars

\* The second child of the outermost Double is drawing its star after the
\* first child, itself a Double, has returned.
C21_Witness ==
    /\ Len(stack) = 2
    /\ stack[1].pc = "sub_b"
    /\ stack[1].sub_a.type = "Double"
    /\ Top.pc = "single"

(***************************************************************************)
(* The claim about the constraint records, checked under SpecTree.         *)
(***************************************************************************)
\* Every leaf of the tree was generated under the star constraints of the
\* record c.
LeavesGeneratedFrom(c, tree) ==
    LET star_constraints == unwrap_or(c.star_constraints, StarConstraints_default)
        generated == get_random_main_sequence_constrained(star_constraints)
        stars == Leaves(tree)
    IN  \A i \in 1..Len(stars) : Ok(stars[i]) \in generated

\* C22: generation never changes a constraint record.  No step of any
\* generator, on the way to a success or to a failure, changes the record it
\* was called with, and every leaf of a returned tree, at whatever depth and
\* on whichever side of a Double, was generated under the star constraints of
\* the record the outermost call received.
C22_ConstraintRecordsUnchanged ==
    [][ /\ constraints' = constraints
        /\ sys_constraints' = sys_constraints
        /\ cb_constraints' = cb_constraints
        /\ st_constraints' = st_constraints
        /\ ret'.ok => LeavesGeneratedFrom(constraints, ret'.val) ]_vars

\* A call with star constraints set has returned a tree of two levels of
\* Double nodes.
C22_Witness ==
    /\ stack = <<>>
    /\ ret.ok
    /\ constraints.star_constraints.some
    /\ ret.val.type = "Double"
    /\ ret.val.first.type = "Double"

(***************************************************************************)
(* The claim about the termination of the retry loop, checked under        *)
(* SpecSysFair.                                                            *)
(***************************************************************************)
\* One iteration of the loop, seen from outside: the attempt's result is the
\* last entry of the log.
C25_IterationStep ==
    sys_pc = "loop" =>
        LET candidate_result == log'[Len(log')]
        IN  /\ attempts' = attempts + 1
            /\ candidate_result.ok => (sys_pc' = "returned" /\ retries' = retries)
            /\ (~candidate_result.ok /\ retries = 0) =>
                   (sys_pc' = "returned" /\ retries' = 0)
            /\ (~candidate_result.ok /\ retries > 0) =>
                   (sys_pc' = "loop" /\ retries' = retries - 1)

\* C25: when every subsystem generation call returns, the retry loop of
\* from_constraints terminates.  The counter decreases by exactly one on every
\* failed attempt that is followed by another attempt and changes in no other
\* iteration, it is never below 0, the attempts made and the retries left add
\* up to the retries constraint while the loop runs, and the call ends at the
\* first success or at a failure with the counter at 0.
C25_RetryLoopTerminates ==
    /\ [][C25_IterationStep]_vars
    /\ [](retries >= 0)
    /\ [](sys_pc = "loop" => attempts + retries = RetriesConstraint)
    /\ (sys_pc = "loop" ~> sys_pc = "returned")

\* A call has returned the failure after using up three retries.
C25_Witness ==
    /\ sys_pc = "returned"
    /\ ~sys_result.ok
    /\ retries = 0
    /\ attempts = 4

(***************************************************************************)
(* The claim about the depth of the recursion, checked under SpecTree.     *)
(***************************************************************************)
\* The Bernoulli draw of the innermost call takes the binary arm.
ChoosesDouble == DrawIsBinary /\ Len(stack') = Len(stack) + 1

\* The Bernoulli draw of the innermost call takes the Single arm.
ChoosesSingle == DrawIsBinary /\ Len(stack') = Len(stack)

\* The binary probability of the record is at least 1.
BinaryProbabilityAtLeastOne ==
    unwrap_or(constraints.binary_probability, PROBABILITY_OF_BINARY_STARS) >= 1000

\* C26: get_random_constrained enforces no depth bound.  At every nesting
\* depth up to MaxDepth, where the model stops following the recursion, a call
\* about to make its Bernoulli draw can take the binary arm, whatever the
\* number of calls already active; and with a binary probability of at least
\* 1 no call can take the Single arm, so no call builds a node and the
\* outermost call never returns.
C26_NoDepthBound ==
    /\ (stack # <<>> /\ Top.pc = "start" /\ Len(stack) <= MaxDepth) => ENABLED ChoosesDouble
    /\ BinaryProbabilityAtLeastOne =>
         /\ ~Returned(ret)
         /\ ~ENABLED ChoosesSingle
         /\ \A i \in 1..Len(stack) : stack[i].pc \in {"start", "sub_a"}

\* With a binary probability of 1 the recursion has reached the deepest
\* nesting the model follows, every call on the stack in its binary arm.
C26_Witness ==
    /\ BinaryProbabilityAtLeastOne
    /\ Len(stack) = MaxDepth + 1
    /\ \A i \in 1..MaxDepth : stack[i].pc = "sub_a"

(***************************************************************************)
(* The claim about the zones of a Double node, checked under SpecTree.     *)
(***************************************************************************)
\* Two distances are the same value up to the last digit of the fixed-point
\* representation.
SameDistance(a, b) == a - b \in {-1, 0, 1}

\* The frost line and the satellite bounds of a returned Double are those of
\* a single star of the combined luminosity and mass.
FrostLineAndSatelliteBoundsAsSingleStar ==
    (ret.ok /\ ret.val.type = "Double") =>
        LET L == get_luminosity(ret.val)
            M == get_mass(ret.val)
        IN  /\ get_frost_line(ret.val) = Star_frost_line(L)
            /\ get_satellite_bounds(ret.val) = Star_satellite_bounds(M)

\* The habitable zone of a returned Double is that of a single star of the
\* combined luminosity.
HabitableZoneAsSingleStar ==
    (ret.ok /\ ret.val.type = "Double") =>
        LET L == get_luminosity(ret.val)
            zone == get_habitable_zone(ret.val)
            star_zone == Star_habitable_zone(L)
        IN  /\ SameDistance(zone[1], star_zone[1])
            /\ SameDistance(zone[2], star_zone[2])

\* C24 as stated: for a Double node of combined luminosity L and combined
\* mass M, get_habitable_zone, get_frost_line and get_satellite_bounds return
\* the values single-star construction assigns to a star of luminosity L and
\* mass M.
C24_DoubleZonesAsSingleStar ==
    /\ FrostLineAndSatelliteBoundsAsSingleStar
    /\ HabitableZoneAsSingleStar

(***************************************************************************)
(* The claim about host star generation, checked under SpecHost.           *)
(***************************************************************************)
\* The selection draw has been made.
Selected == host_pc # "idle"

\* C23: host star generation makes one selection draw before anything else
\* and then invokes exactly one sub-generator: star generation if and only if
\* the draw is greater than BINARY_STAR_PROBABILITY, close binary star
\* generation otherwise.  The generator not selected is never invoked and
\* makes no draw; the value returned is the selected generator's star in the
\* Star variant, its pair in the CloseBinaryStar variant, or its failure; and
\* no second selection is made.
C23_OneDrawSelectsOneGenerator ==
    /\ [](~Selected => (StarNotInvoked /\ CloseBinaryStarNotInvoked /\ ~Returned(host_result)))
    /\ [](Selected =>
            /\ is_solitary <=> selection_draw > BINARY_STAR_PROBABILITY
            /\ is_solitary => (~StarNotInvoked /\ CloseBinaryStarNotInvoked)
            /\ ~is_solitary => (~CloseBinaryStarNotInvoked /\ StarNotInvoked))
    /\ []((Returned(host_result) /\ host_result.ok) =>
            /\ host_result.val.type = "Star" <=> selection_draw > BINARY_STAR_PROBABILITY
            /\ host_result.val.type = "CloseBinaryStar"
                 <=> selection_draw <= BINARY_STAR_PROBABILITY
            /\ is_solitary => host_result.val.star = st_result.val
            /\ ~is_solitary => host_result.val.close_binary_star = cb_result.val)
    /\ []((Returned(host_result) /\ ~host_result.ok) =>
            host_result = IF is_solitary THEN st_result ELSE cb_result)
    /\ [][Selected => ( /\ Selected'
                       /\ selection_draw' = selection_draw
                       /\ is_solitary' = is_solitary
                       /\ (is_solitary => UNCHANGED cbVars)
                       /\ (~is_solitary => UNCHANGED starVars) )]_vars

\* A call whose draw was exactly BINARY_STAR_PROBABILITY has returned a
\* close binary star.
C23_Witness ==
    /\ host_pc = "returned"
    /\ host_result.ok
    /\ host_result.val.type = "CloseBinaryStar"
    /\ selection_draw = BINARY_STAR_PROBABILITY

====
